---- MODULE Spec2Model ----
(***************************************************************************)
(* PacketBuffer (src/packet.rs): a fixed-size byte array with a read       *)
(* cursor.  The model keeps the array and the cursor as the state, and    *)
(* records, for the most recent call, what was called, with what          *)
(* arguments, from which position, what it returned and which elements of *)
(* the array it touched.                                                   *)
(***************************************************************************)
EXTENDS Integers, Naturals, Sequences, FiniteSets, TLC

\* const PACKET_BYTES_LENGTH: usize = 512;
PACKET_BYTES_LENGTH == 512

\* Width of usize in the model (the machine word of the build).
UsizeBits == 12
\* How far around 0, PACKET_BYTES_LENGTH and usize::MAX the arguments range.
Near == 1
\* The arrays handed to new() are Pattern(0) .. Pattern(MaxSeed).
MaxSeed == 0

Pow2(n) == 2 ^ n
USIZE_MAX == Pow2(UsizeBits) - 1
U8 == 0 .. 255

\* usize addition when overflow checks are off: two's complement wrap.
WrappingAdd(a, b) == (a + b) % Pow2(UsizeBits)
\* does a + b leave the range of usize
Overflows(a, b) == a + b > USIZE_MAX

\* x as u16, for a u8 x
AsU16(x) == x % 65536
\* x << k on u16
Shl16(x, k) == (x * Pow2(k)) % 65536
\* a | b, bit by bit
RECURSIVE BitOr(_, _)
BitOr(a, b) ==
    IF a = 0 THEN b
    ELSE IF b = 0 THEN a
    ELSE (IF a % 2 = 1 \/ b % 2 = 1 THEN 1 ELSE 0) + 2 * BitOr(a \div 2, b \div 2)

\* Arrays are indexed from 0, as in the source.
Indices == 0 .. PACKET_BYTES_LENGTH - 1
Pattern(s) == [i \in Indices |-> ((s + 1) * 3 + (s + 2) * i) % 256]
\* The arrays a caller may hand to new().  The array is never written after
\* construction, so the state names it by its place in this table.
Bufs == [s \in 0 .. MaxSeed |-> Pattern(s)]
\* the contents of array b
Data(b) == Bufs[b]

\* The argument values tried for step, seek and get_range.
Around(c) == {n \in (c - Near) .. (c + Near) : 0 <= n /\ n <= USIZE_MAX}
Args == Around(0) \cup Around(PACKET_BYTES_LENGTH) \cup Around(USIZE_MAX)
\* The (start, len) pairs tried for get_range: one of the two is 0 or 1.
RangeArgs == ({0, 1} \X Args) \cup (Args \X {0, 1})

VARIABLES
    buf,              \* PacketBuffer.buf, as its place in Bufs
    pos,              \* PacketBuffer.pos
    overflow_checks,  \* the build: TRUE when integer overflow panics
    op,               \* the last call
    args,             \* its arguments
    pre,              \* the position it was called at
    ret,              \* what it returned
    acc,              \* the array accesses it performed
    run               \* n when the calls so far since position 0 are n read()s

vars == <<buf, pos, overflow_checks, op, args, pre, ret, acc, run>>

----
\* Values returned to the caller.  val carries a byte, a u16 or a usize;
\* slice carries the bytes of a borrowed range.
NoErr == [text |-> "", fields |-> <<>>]
Ok(v) == [kind |-> "ok", val |-> v, slice |-> <<>>, err |-> NoErr]
OkSlice(s) == [kind |-> "ok", val |-> 0, slice |-> s, err |-> NoErr]
Err(e) == [kind |-> "err", val |-> 0, slice |-> <<>>, err |-> e]
Panic == [kind |-> "panic", val |-> 0, slice |-> <<>>, err |-> NoErr]

\* An outcome of a call: the position it leaves, the value it returns and
\* the accesses it made to the array.
Outcome(p, r, a) == [pos |-> p, ret |-> r, acc |-> a]

IndexAccess(i) == [kind |-> "index", lo |-> i, hi |-> i + 1]
SliceAccess(s, e) == [kind |-> "slice", lo |-> s, hi |-> e]

\* The bounds check of the indexing expression self.buf[i].
IndexInBounds(i) == i < PACKET_BYTES_LENGTH
\* Mutant of SliceInBounds: the slice is taken unchecked.
SliceUnchecked(s, e) == TRUE
\* The bounds check of the slicing expression &self.buf[s..e].
SliceInBounds(s, e) == s <= e /\ e <= PACKET_BYTES_LENGTH

\* b[s..e] as a sequence
Slice(b, s, e) == [k \in 1 .. (e - s) |-> Data(b)[s + k - 1]]

----
\* The strings built by format!: the fixed text and the values printed.
\* Mutant of StepErr: the two values after the length are passed to format!
\* in the wrong order.
StepErrSwapped(p, n) ==
    [text |-> "Invalid step, stepping past buffer boundary",
     fields |-> << <<"buffer length", PACKET_BYTES_LENGTH>>, <<"pos", n>>, <<"step", p>> >>]

StepErr(p, n) ==
    [text |-> "Invalid step, stepping past buffer boundary",
     fields |-> << <<"buffer length", PACKET_BYTES_LENGTH>>, <<"pos", p>>, <<"step", n>> >>]
SeekErr(t) ==
    [text |-> "Invalid seek, seeking past buffer boundary",
     fields |-> << <<"buffer length", PACKET_BYTES_LENGTH>>, <<"seek", t>> >>]
ReadErr(p) ==
    [text |-> "Invalid read, reading past buffer boundary",
     fields |-> << <<"buffer length", PACKET_BYTES_LENGTH>>, <<"pos", p>> >>]
GetErr(p) ==
    [text |-> "Invalid get, getting value past buffer boundary",
     fields |-> << <<"buffer length", PACKET_BYTES_LENGTH>>, <<"pos", p>> >>]
RangeErr(s, l) ==
    [text |-> "Invalid range, getting range past buffer boundary",
     fields |-> << <<"buffer length", PACKET_BYTES_LENGTH>>, <<"start", s>>, <<"len", l>> >>]

----
\* The methods, as functions from the object (b, p), the arguments and the
\* build (oc: overflow checks on) to an outcome.

\* Mutant of step: the boundary test is missing.
step_unchecked(p, n, oc) ==
    IF oc /\ Overflows(p, n) THEN Outcome(p, Panic, {})
    ELSE Outcome(WrappingAdd(p, n), Ok(0), {})

\* Mutant of step: the boundary test is > instead of >=.
step_off_by_one(p, n, oc) ==
    IF oc /\ Overflows(p, n) THEN Outcome(p, Panic, {})
    ELSE IF WrappingAdd(p, n) > PACKET_BYTES_LENGTH
         THEN Outcome(p, Err(StepErr(p, n)), {})
         ELSE Outcome(WrappingAdd(p, n), Ok(0), {})

\* Mutant of step: the step alone is tested against the boundary.
step_ignoring_pos(p, n, oc) ==
    IF oc /\ Overflows(p, n) THEN Outcome(p, Panic, {})
    ELSE IF n >= PACKET_BYTES_LENGTH
         THEN Outcome(p, Err(StepErr(p, n)), {})
         ELSE Outcome(WrappingAdd(p, n), Ok(0), {})

\* Mutant of step: the step is assigned to the position, not added to it.
step_assigning(p, n, oc) ==
    IF oc /\ Overflows(p, n) THEN Outcome(p, Panic, {})
    ELSE IF WrappingAdd(p, n) >= PACKET_BYTES_LENGTH
         THEN Outcome(p, Err(StepErr(p, n)), {})
         ELSE Outcome(n, Ok(0), {})

\* pub fn step(&mut self, step: usize) -> Result<(), String>
step(p, n, oc) ==
    IF oc /\ Overflows(p, n) THEN Outcome(p, Panic, {})
    ELSE IF WrappingAdd(p, n) >= PACKET_BYTES_LENGTH
         THEN Outcome(p, Err(StepErr(p, n)), {})
         ELSE Outcome(WrappingAdd(p, n), Ok(0), {})

\* Mutant of seek: the position is assigned before the boundary test.
seek_assign_first(p, t) ==
    IF t >= PACKET_BYTES_LENGTH
    THEN Outcome(t, Err(SeekErr(t)), {})
    ELSE Outcome(t, Ok(0), {})

\* Mutant of seek: the boundary test is > instead of >=.
seek_off_by_one(p, t) ==
    IF t > PACKET_BYTES_LENGTH
    THEN Outcome(p, Err(SeekErr(t)), {})
    ELSE Outcome(t, Ok(0), {})

\* pub fn seek(&mut self, pos: usize) -> Result<(), String>
seek(p, t) ==
    IF t >= PACKET_BYTES_LENGTH
    THEN Outcome(p, Err(SeekErr(t)), {})
    ELSE Outcome(t, Ok(0), {})

\* Mutant of read: the position is advanced before the byte is fetched.
read_preinc(b, p) ==
    IF p >= PACKET_BYTES_LENGTH THEN Outcome(p, Err(ReadErr(p)), {})
    ELSE IF ~IndexInBounds(p + 1) THEN Outcome(p + 1, Panic, {})
    ELSE Outcome(p + 1, Ok(Data(b)[p + 1]), {IndexAccess(p + 1)})

\* Mutant of read: the boundary test is > instead of >=.
read_off_by_one(b, p) ==
    IF p > PACKET_BYTES_LENGTH THEN Outcome(p, Err(ReadErr(p)), {})
    ELSE IF ~IndexInBounds(p) THEN Outcome(p, Panic, {})
    ELSE Outcome(p + 1, Ok(Data(b)[p]), {IndexAccess(p)})

\* pub fn read(&mut self) -> Result<u8, String>
read(b, p) ==
    IF p >= PACKET_BYTES_LENGTH THEN Outcome(p, Err(ReadErr(p)), {})
    ELSE IF ~IndexInBounds(p) THEN Outcome(p, Panic, {})
    ELSE Outcome(p + 1, Ok(Data(b)[p]), {IndexAccess(p)})

\* Mutant of read_u16: the second byte read is taken as the high byte.
read_u16_little_endian(b, p) ==
    LET first == read(b, p) IN
    IF first.ret.kind # "ok" THEN first
    ELSE LET second == read(b, first.pos)
             touched == first.acc \cup second.acc
         IN  IF second.ret.kind # "ok"
             THEN Outcome(second.pos, second.ret, touched)
             ELSE Outcome(second.pos,
                          Ok(BitOr(Shl16(AsU16(second.ret.val), 8), AsU16(first.ret.val))),
                          touched)

\* Mutant of read_u16: room for both bytes is tested before either is read.
read_u16_atomic(b, p) ==
    IF p + 2 > PACKET_BYTES_LENGTH THEN Outcome(p, Err(ReadErr(p)), {})
    ELSE LET first == read(b, p)
             second == read(b, first.pos)
         IN  Outcome(second.pos,
                     Ok(BitOr(Shl16(AsU16(first.ret.val), 8), AsU16(second.ret.val))),
                     first.acc \cup second.acc)

\* pub fn read_u16(&mut self) -> Result<u16, String>
\* The operands of | are evaluated left to right; each ? returns the error
\* of its read() at once.
read_u16(b, p) ==
    LET first == read(b, p) IN
    IF first.ret.kind # "ok" THEN first
    ELSE LET second == read(b, first.pos)
             touched == first.acc \cup second.acc
         IN  IF second.ret.kind # "ok"
             THEN Outcome(second.pos, second.ret, touched)
             ELSE Outcome(second.pos,
                          Ok(BitOr(Shl16(AsU16(first.ret.val), 8), AsU16(second.ret.val))),
                          touched)

\* Mutant of get: the position is advanced, as in read.
get_advancing(b, p) ==
    IF p >= PACKET_BYTES_LENGTH THEN Outcome(p, Err(GetErr(p)), {})
    ELSE IF ~IndexInBounds(p) THEN Outcome(p, Panic, {})
    ELSE Outcome(p + 1, Ok(Data(b)[p]), {IndexAccess(p)})

\* pub fn get(&self) -> Result<u8, String>
get(b, p) ==
    IF p >= PACKET_BYTES_LENGTH THEN Outcome(p, Err(GetErr(p)), {})
    ELSE IF ~IndexInBounds(p) THEN Outcome(p, Panic, {})
    ELSE Outcome(p, Ok(Data(b)[p]), {IndexAccess(p)})

\* Mutant of get_range: the cursor is left at the end of the range returned.
get_range_consuming(b, p, start, len, oc) ==
    IF oc /\ Overflows(start, len) THEN Outcome(p, Panic, {})
    ELSE IF WrappingAdd(start, len) >= PACKET_BYTES_LENGTH
         THEN Outcome(p, Err(RangeErr(start, len)), {})
         ELSE LET end == WrappingAdd(start, len) IN
              IF ~SliceInBounds(start, end) THEN Outcome(p, Panic, {})
              ELSE Outcome(end, OkSlice(Slice(b, start, end)), {SliceAccess(start, end)})

\* pub fn get_range(&self, start: usize, len: usize) -> Result<&[u8], String>
get_range(b, p, start, len, oc) ==
    IF oc /\ Overflows(start, len) THEN Outcome(p, Panic, {})
    ELSE IF WrappingAdd(start, len) >= PACKET_BYTES_LENGTH
         THEN Outcome(p, Err(RangeErr(start, len)), {})
         ELSE LET end == WrappingAdd(start, len) IN
              IF ~SliceInBounds(start, end) THEN Outcome(p, Panic, {})
              ELSE Outcome(p, OkSlice(Slice(b, start, end)), {SliceAccess(start, end)})

----
\* pub fn new(buf: [u8; PACKET_BYTES_LENGTH]) -> PacketBuffer
Init ==
    /\ buf \in DOMAIN Bufs
    /\ pos = 0
    /\ overflow_checks \in BOOLEAN
    /\ op = "new"
    /\ args = <<>>
    /\ pre = 0
    /\ ret = Ok(0)
    /\ acc = {}
    /\ run = 0

\* A call of method name with arguments a and outcome out.  run counts the
\* read() calls made in a row from position 0, up to PACKET_BYTES_LENGTH.
Call(name, a, out) ==
    /\ pos' = out.pos
    /\ op' = name
    /\ args' = a
    /\ pre' = pos
    /\ ret' = out.ret
    /\ acc' = out.acc
    /\ run' = IF name = "read"
              THEN (IF run >= 0 /\ run < PACKET_BYTES_LENGTH THEN run + 1 ELSE -1)
              ELSE (IF out.pos = 0 THEN 0 ELSE -1)
    /\ UNCHANGED <<buf, overflow_checks>>

\* pub fn pos(&self) -> usize
Pos == Call("pos", <<>>, Outcome(pos, Ok(pos), {}))

Step == \E n \in Args : Call("step", <<n>>, step(pos, n, overflow_checks))

Seek == \E t \in Args : Call("seek", <<t>>, seek(pos, t))

Read == Call("read", <<>>, read(buf, pos))

ReadU16 == Call("read_u16", <<>>, read_u16(buf, pos))

Get == Call("get", <<>>, get(buf, pos))

GetRange ==
    \E a \in RangeArgs :
        Call("get_range", a, get_range(buf, pos, a[1], a[2], overflow_checks))

Next == Pos \/ Step \/ Seek \/ Read \/ ReadU16 \/ Get \/ GetRange

Spec == Init /\ [][Next]_vars

----
TypeOK ==
    /\ buf \in DOMAIN Bufs
    /\ Data(buf) \in [Indices -> U8]
    /\ pos \in 0 .. USIZE_MAX
    /\ overflow_checks \in BOOLEAN
    /\ op \in {"new", "pos", "step", "seek", "read", "read_u16", "get", "get_range"}
    /\ pre \in 0 .. USIZE_MAX
    /\ ret.kind \in {"ok", "err", "panic"}
    /\ run \in -1 .. PACKET_BYTES_LENGTH

----
\* The call returned Ok / returned Err.  A panic is neither.
Succeeded == ret.kind = "ok"
Failed == ret.kind = "err"
\* The error string e prints name=v.
Reports(e, name, v) == \E i \in DOMAIN e.fields : e.fields[i] = <<name, v>>

\* C1: position is 0 right after construction, and after any sequence of
\* calls, successful or not, 0 <= position <= capacity.
C1_PositionInvariant ==
    /\ pos >= 0
    /\ pos <= PACKET_BYTES_LENGTH
    /\ (op = "new" => pos = 0)

\* C1 witness: a step has failed at the exhausted position, the largest
\* position there is.
C1_Witness ==
    /\ op = "step"
    /\ Failed
    /\ pre = PACKET_BYTES_LENGTH
    /\ pos = PACKET_BYTES_LENGTH

\* C2 (as stated): every operation, read_u16 included, that fails leaves
\* position and data exactly as they were before the call.
C2_FailureAtomicity ==
    [][ret'.kind = "err" => (pos' = pos /\ buf' = buf)]_vars

\* C2 (amended): a failing step, seek, read, get or get_range leaves
\* position and data as they were; a failing read_u16 leaves data as it
\* was and position either as it was (called at capacity) or advanced by
\* one (called at capacity - 1).
C2_FailureAtomicityButReadU16 ==
    [][ret'.kind = "err" =>
          /\ buf' = buf
          /\ op' # "read_u16" => pos' = pos
          /\ op' = "read_u16" =>
                \/ pos = PACKET_BYTES_LENGTH /\ pos' = pos
                \/ pos = PACKET_BYTES_LENGTH - 1 /\ pos' = pos + 1]_vars

\* C2 witness: read_u16 has failed after consuming the last byte.
C2_Witness ==
    /\ op = "read_u16"
    /\ Failed
    /\ pre = PACKET_BYTES_LENGTH - 1
    /\ pos = PACKET_BYTES_LENGTH

\* C3: every element access made by read, read_u16 and get is at an index
\* 0 <= i < capacity, and every slice start..end taken by get_range has
\* start <= end <= capacity.
C3_AccessesInBounds ==
    \A a \in acc :
        /\ a.lo >= 0
        /\ a.kind = "index" => a.lo < PACKET_BYTES_LENGTH
        /\ a.kind = "slice" => a.lo <= a.hi /\ a.hi <= PACKET_BYTES_LENGTH

\* C3 witness: get_range was called with start + len past usize::MAX in a
\* build that wraps, and took no slice.
C3_Witness ==
    /\ op = "get_range"
    /\ ~overflow_checks
    /\ Overflows(args[1], args[2])
    /\ WrappingAdd(args[1], args[2]) < PACKET_BYTES_LENGTH
    /\ acc = {}

\* C4 (as stated): step(delta) from p succeeds and sets position to
\* p + delta exactly when p + delta < capacity; otherwise it fails and
\* position stays p.
C4_StepContract ==
    op = "step" =>
        IF pre + args[1] < PACKET_BYTES_LENGTH
        THEN Succeeded /\ pos = pre + args[1]
        ELSE Failed /\ pos = pre

\* C5: seek(target) from any p, the exhausted position included, succeeds
\* and sets position to target exactly when target < capacity; otherwise
\* it fails and position stays p.
C5_SeekContract ==
    op = "seek" =>
        IF args[1] < PACKET_BYTES_LENGTH
        THEN Succeeded /\ pos = args[1]
        ELSE Failed /\ pos = pre

\* C5 witness: a seek has succeeded from the exhausted position.
C5_Witness ==
    /\ op = "seek"
    /\ pre = PACKET_BYTES_LENGTH
    /\ Succeeded
    /\ pos = PACKET_BYTES_LENGTH - 1

\* C6: read() at p < capacity returns data[p] and advances position by one;
\* of the first capacity read() calls made in a row from position 0, the
\* k-th succeeds and returns data[k-1], and the last leaves position at
\* capacity.
C6_SequentialRead ==
    /\ (op = "read" /\ pre < PACKET_BYTES_LENGTH) =>
            Succeeded /\ ret.val = Data(buf)[pre] /\ pos = pre + 1
    /\ (run >= 1 /\ run <= PACKET_BYTES_LENGTH) =>
            op = "read" /\ Succeeded /\ ret.val = Data(buf)[run - 1] /\ pos = run

\* C6 witness: capacity reads in a row from position 0 have been made.
C6_Witness ==
    /\ run = PACKET_BYTES_LENGTH
    /\ pos = PACKET_BYTES_LENGTH

\* C7: read() at position == capacity fails with an error printing
\* pos=capacity, and position stays at capacity.
C7_ReadAtExhaustion ==
    (op = "read" /\ pre = PACKET_BYTES_LENGTH) =>
        /\ Failed
        /\ Reports(ret.err, "pos", PACKET_BYTES_LENGTH)
        /\ pos = PACKET_BYTES_LENGTH

\* C7 witness: a read has been tried at the exhausted position.
C7_Witness ==
    /\ op = "read"
    /\ pre = PACKET_BYTES_LENGTH
    /\ Failed

\* C8: get() returns what a read() made right after it returns (data[p]
\* when p < capacity, a failure at capacity), leaves position alone, and
\* another get() returns the same again.
C8_PeekConsistency ==
    op = "get" =>
        /\ pos = pre
        /\ ret.kind = read(buf, pos).ret.kind
        /\ ret.val = read(buf, pos).ret.val
        /\ (pre < PACKET_BYTES_LENGTH => Succeeded /\ ret.val = Data(buf)[pre])
        /\ (pre = PACKET_BYTES_LENGTH => Failed)
        /\ get(buf, pos).ret = ret
        /\ get(buf, pos).pos = pos

\* C8 witness: a get() of the last byte.
C8_Witness ==
    /\ op = "get"
    /\ pre = PACKET_BYTES_LENGTH - 1
    /\ Succeeded

\* C9 (as stated): get_range(start, length) fails whenever
\* start + length >= capacity and otherwise returns the bytes
\* data[start] .. data[start + length - 1] in order; position is unchanged
\* either way.
C9_GetRangeContract ==
    op = "get_range" =>
        /\ pos = pre
        /\ IF args[1] + args[2] >= PACKET_BYTES_LENGTH
           THEN Failed
           ELSE /\ Succeeded
                /\ Len(ret.slice) = args[2]
                /\ \A k \in 1 .. args[2] : ret.slice[k] = Data(buf)[args[1] + k - 1]

\* C10: read_u16() at p with p + 2 <= capacity succeeds, returns
\* data[p] * 256 + data[p + 1], a value in 0 .. 65535, and advances
\* position by two.
C10_ReadU16Success ==
    (op = "read_u16" /\ pre + 2 <= PACKET_BYTES_LENGTH) =>
        /\ Succeeded
        /\ ret.val = Data(buf)[pre] * 256 + Data(buf)[pre + 1]
        /\ ret.val \in 0 .. 65535
        /\ pos = pre + 2

\* C10 witness: the bytes 0x03, 0x05 at the front read as 0x0305.
C10_Witness ==
    /\ op = "read_u16"
    /\ pre = 0
    /\ Data(buf)[0] = 3
    /\ Data(buf)[1] = 5
    /\ ret.val = 773
    /\ pos = 2

\* C11: read_u16() fails at exactly two positions: at capacity, where no
\* byte is consumed and position is unchanged, and at capacity - 1, where
\* the last byte is consumed and position has advanced by one, to capacity.
C11_ReadU16FailureNotAtomic ==
    op = "read_u16" =>
        /\ ret.kind \in {"ok", "err"}
        /\ Failed <=> pre \in {PACKET_BYTES_LENGTH - 1, PACKET_BYTES_LENGTH}
        /\ (Failed /\ pre = PACKET_BYTES_LENGTH) => pos = pre /\ acc = {}
        /\ (Failed /\ pre = PACKET_BYTES_LENGTH - 1) =>
                /\ pos = pre + 1
                /\ pos = PACKET_BYTES_LENGTH
                /\ acc = {IndexAccess(pre)}

\* C11 witness: read_u16 has failed with the last byte consumed.
C11_Witness ==
    /\ op = "read_u16"
    /\ Failed
    /\ acc = {IndexAccess(PACKET_BYTES_LENGTH - 1)}
    /\ pos = pre + 1

\* C12: a call that brings position to capacity is a read() that succeeded
\* at capacity - 1, made directly or inside read_u16; no step and no seek
\* that succeeds leaves position at capacity.
C12_ExhaustedOnlyByRead ==
    /\ (pos = PACKET_BYTES_LENGTH /\ pre # PACKET_BYTES_LENGTH) =>
            /\ op \in {"read", "read_u16"}
            /\ IndexAccess(PACKET_BYTES_LENGTH - 1) \in acc
            /\ op = "read" => Succeeded /\ pre = PACKET_BYTES_LENGTH - 1
            /\ op = "read_u16" =>
                    \/ Succeeded /\ pre = PACKET_BYTES_LENGTH - 2
                    \/ Failed /\ pre = PACKET_BYTES_LENGTH - 1
    /\ (op \in {"step", "seek"} /\ Succeeded) => pos # PACKET_BYTES_LENGTH

\* C12 witness: read_u16 has read the last two bytes and left position at
\* capacity.
C12_Witness ==
    /\ op = "read_u16"
    /\ Succeeded
    /\ pre = PACKET_BYTES_LENGTH - 2
    /\ pos = PACKET_BYTES_LENGTH

\* C13 (as stated): for every argument of the machine word, step and
\* get_range return Ok or Err and never panic; a step that succeeds has set
\* position to position + delta, below capacity, and a get_range that
\* succeeds had start + length below capacity: no sum is wrapped.
C13_NoPanicNoWrap ==
    /\ op \in {"step", "get_range"} => ret.kind \in {"ok", "err"}
    /\ (op = "step" /\ Succeeded) =>
            pos = pre + args[1] /\ pre + args[1] < PACKET_BYTES_LENGTH
    /\ (op = "step" /\ ~Succeeded) => pos = pre
    /\ (op = "get_range" /\ Succeeded) => args[1] + args[2] < PACKET_BYTES_LENGTH

\* The error of the last call names operation text and prints the capacity.
ErrorNames(text) ==
    /\ ret.err.text = text
    /\ Reports(ret.err, "buffer length", PACKET_BYTES_LENGTH)

\* C14 (as stated): the error of every failing step, seek, read, get and
\* get_range names the operation and prints the capacity, the position at
\* the time of the call and the offending argument, where there is one.
C14_ErrorContent ==
    Failed =>
        /\ op = "step" =>
                /\ ErrorNames("Invalid step, stepping past buffer boundary")
                /\ Reports(ret.err, "pos", pre)
                /\ Reports(ret.err, "step", args[1])
        /\ op = "seek" =>
                /\ ErrorNames("Invalid seek, seeking past buffer boundary")
                /\ Reports(ret.err, "pos", pre)
                /\ Reports(ret.err, "seek", args[1])
        /\ op = "read" =>
                /\ ErrorNames("Invalid read, reading past buffer boundary")
                /\ Reports(ret.err, "pos", pre)
        /\ op = "get" =>
                /\ ErrorNames("Invalid get, getting value past buffer boundary")
                /\ Reports(ret.err, "pos", pre)
        /\ op = "get_range" =>
                /\ ErrorNames("Invalid range, getting range past buffer boundary")
                /\ Reports(ret.err, "pos", pre)
                /\ Reports(ret.err, "start", args[1])
                /\ Reports(ret.err, "len", args[2])

\* C14 (amended): the error of every failing step, seek, read, get and
\* get_range names the operation and prints the capacity and the offending
\* argument, where there is one; the errors of step, read and get also print
\* the position at the time of the call, those of seek and get_range print
\* no position.
C14_ErrorContentPerOperation ==
    Failed =>
        /\ op = "step" =>
                /\ ErrorNames("Invalid step, stepping past buffer boundary")
                /\ Reports(ret.err, "pos", pre)
                /\ Reports(ret.err, "step", args[1])
        /\ op = "seek" =>
                /\ ErrorNames("Invalid seek, seeking past buffer boundary")
                /\ Reports(ret.err, "seek", args[1])
                /\ \A i \in DOMAIN ret.err.fields : ret.err.fields[i][1] # "pos"
        /\ op = "read" =>
                /\ ErrorNames("Invalid read, reading past buffer boundary")
                /\ Reports(ret.err, "pos", pre)
        /\ op = "get" =>
                /\ ErrorNames("Invalid get, getting value past buffer boundary")
                /\ Reports(ret.err, "pos", pre)
        /\ op = "get_range" =>
                /\ ErrorNames("Invalid range, getting range past buffer boundary")
                /\ Reports(ret.err, "start", args[1])
                /\ Reports(ret.err, "len", args[2])
                /\ \A i \in DOMAIN ret.err.fields : ret.err.fields[i][1] # "pos"

\* C14 witness: step(513) from position 0 has failed, printing
\* buffer length=512, pos=0, step=513.
C14_Witness ==
    /\ op = "step"
    /\ pre = 0
    /\ args = <<PACKET_BYTES_LENGTH + 1>>
    /\ Failed
    /\ ret.err.fields = << <<"buffer length", 512>>, <<"pos", 0>>, <<"step", 513>> >>

\* C15: no call changes the array, whose length is capacity; pos(), get()
\* and get_range() change nothing at all, and pos() returns the position
\* without ever failing.
C15_FrameConditions ==
    [][/\ buf' = buf
       /\ Data(buf') = Data(buf)
       /\ DOMAIN Data(buf') = Indices
       /\ Cardinality(DOMAIN Data(buf')) = PACKET_BYTES_LENGTH
       /\ op' \in {"pos", "get", "get_range"} => pos' = pos
       /\ op' = "pos" => ret' = Ok(pos)]_vars

\* C15 witness: get_range has returned a range that does not start at the
\* cursor.
C15_Witness ==
    /\ op = "get_range"
    /\ Succeeded
    /\ Len(ret.slice) > 0
    /\ args[1] # pre
    /\ pos = pre

\* C16 (as stated): at position == capacity every step(delta), delta == 0
\* included, and every read(), read_u16() and get() fails and leaves
\* position at capacity; only a seek(target) with target < capacity moves
\* position away from capacity.
C16_ExhaustedAbsorbing ==
    pre = PACKET_BYTES_LENGTH =>
        /\ op \in {"step", "read", "read_u16", "get"} =>
                Failed /\ pos = PACKET_BYTES_LENGTH
        /\ pos # PACKET_BYTES_LENGTH =>
                op = "seek" /\ Succeeded /\ args[1] < PACKET_BYTES_LENGTH

\* C17: when p + delta does not overflow the word, step(delta) at p and
\* seek(p + delta) at p both succeed or both fail and leave the same
\* position; step(0) succeeds exactly when p < capacity.
C17_StepAgreesWithSeek ==
    /\ (op = "step" /\ ~Overflows(pre, args[1])) =>
            /\ ret.kind = seek(pre, pre + args[1]).ret.kind
            /\ pos = seek(pre, pre + args[1]).pos
    /\ (op = "seek" /\ args[1] >= pre) =>
            /\ ret.kind = step(pre, args[1] - pre, overflow_checks).ret.kind
            /\ pos = step(pre, args[1] - pre, overflow_checks).pos
    /\ (op = "step" /\ args[1] = 0) =>
            /\ ret.kind \in {"ok", "err"}
            /\ Succeeded <=> pre < PACKET_BYTES_LENGTH

\* C17 witness: step(0) has failed at the exhausted position, as
\* seek(capacity) does.
C17_Witness ==
    /\ op = "step"
    /\ args = <<0>>
    /\ pre = PACKET_BYTES_LENGTH
    /\ Failed
    /\ seek(pre, pre + args[1]).ret.kind = "err"

\* C18: a step whose sum does not overflow the word, a read, a read_u16, a
\* get and a get_range never lower position, whether they succeed or fail;
\* a call that lowers it is a seek that succeeded.
C18_MonotoneWithoutSeek ==
    /\ (/\ op \in {"step", "read", "read_u16", "get", "get_range"}
        /\ op = "step" => ~Overflows(pre, args[1])) => pos >= pre
    /\ (pos < pre /\ ~(op = "step" /\ Overflows(pre, args[1]))) =>
            op = "seek" /\ Succeeded

\* C18 witness: a seek has lowered position.
C18_Witness ==
    /\ op = "seek"
    /\ Succeeded
    /\ pos < pre

====
